---- MODULE Spec2Model ----
(***************************************************************************)
(* License logger (src/license_logger.py): the verify_license handler as   *)
(* one PostgreSQL transaction per request (READ COMMITTED, psycopg2        *)
(* implicit BEGIN at the first statement), run by concurrent workers, and  *)
(* the statistics read get_license_stats.                                  *)
(*                                                                         *)
(* The committed database is the five relations init_db creates.  A        *)
(* request's uncommitted row versions live in pend[r] until COMMIT applies *)
(* them or ROLLBACK drops them; a row version in pend[r] is also the row   *)
(* lock (or the in-progress unique-index entry) other transactions wait    *)
(* on.  Time is counted in days.                                           *)
(***************************************************************************)
EXTENDS Integers, FiniteSets, Sequences, TLC

\* ---------------------------------------------------------------- bounds
MaxReq == 2          \* request slots; each slot serves one request
MaxTicks == 1        \* how many times the clock advances
TickDays == 31       \* days the clock advances at a time
MaxConns == 3        \* connections left open that the model counts
MaxRows == 52        \* activity rows of one license in a ledger that is read
MaxOther == 1        \* activity rows of the other license in that ledger

\* ------------------------------------------------------ program constants
LicenseDays == 30    \* timedelta(days=30)
ActivityLimit == 50  \* LIMIT 50
Retries == 3         \* retries = 3
PauseSeconds == 1    \* time.sleep(1)
DefaultMaxDevices == 1   \* max_devices INTEGER DEFAULT 1

Requests == 1..MaxReq

\* what the clients of the model send
LicenseKeys == {"K1", "K2"}
UserIds == {"alice", "bob"}
DeviceIds == {"", "dev1", "dev2"}     \* '' is device_info without device_id
RemoteAddr == "10.0.0.1"

\* the relations CREATE TABLE IF NOT EXISTS makes in init_db
Tables == {"users", "licenses", "user_licenses", "license_activity",
           "device_activations"}

VARIABLES
    now,                 \* datetime.now() / CURRENT_TIMESTAMP, in days
    users,               \* committed rows of users
    licenses,            \* committed rows of licenses
    user_licenses,       \* committed rows of user_licenses
    device_activations,  \* committed rows of device_activations
    license_activity,    \* committed rows of license_activity
    seq,                 \* the SERIAL sequences, one per relation
    pc,                  \* where each request is in verify_license
    req,                 \* the request body: license_key, user_id, device_id
    txStart,             \* CURRENT_TIMESTAMP of the request's transaction
    user_db_id,          \* local user_db_id
    license_data,        \* local license_data (the RETURNING row)
    active_devices,      \* local active_devices
    pend,                \* the request's uncommitted row versions
    resp,                \* the response returned to the caller
    abandoned,           \* the caller stopped waiting for the response
    statsResp,           \* the last response of get_license_stats
    conns,               \* store connections opened and not closed
    hdr,                 \* the X-API-Key header of each request (0: a read)
    activityResp,        \* the last response of get_license_activity
    boot                 \* init_db: where it is, and its locals

dbVars == <<users, licenses, user_licenses, device_activations, license_activity>>
locVars == <<txStart, user_db_id, license_data, active_devices>>
vars == <<now, users, licenses, user_licenses, device_activations,
          license_activity, seq, pc, req, txStart, user_db_id, license_data,
          active_devices, pend, resp, abandoned, statsResp, conns, hdr,
          activityResp, boot>>
envVars == <<hdr, activityResp, boot>>

\* API_KEY, and the X-API-Key headers that are not it (None when absent)
ApiKey == "STOVE_ADMIN_2024_SECRET"
NoHeader == "None"
BadHeaders == {NoHeader, "wrong"}

\* who sends a header: the verify_license requests, and 0 for the reads
Clients == Requests \cup {0}

\* init_db has returned True
Booted == [pc |-> "returned", attempt |-> 1, conn |-> "closed", cur |-> "closed",
           failed |-> 0, slept |-> 0, last_error |-> 0, outcome |-> "True"]

NoReq == [license_key |-> "", user_id |-> "", device_id |-> ""]
NoData == [id |-> 0]
NoResp == [code |-> 0]
NoPend == [users |-> {}, licenses |-> {}, user_licenses |-> {},
           device_activations |-> {}, license_activity |-> {}]

Init ==
    /\ now = 0
    /\ users = {}
    /\ licenses = {}
    /\ user_licenses = {}
    /\ device_activations = {}
    /\ license_activity = {}
    /\ seq = [t \in Tables |-> 0]
    /\ pc = [r \in Requests |-> "idle"]
    /\ req = [r \in Requests |-> NoReq]
    /\ txStart = [r \in Requests |-> 0]
    /\ user_db_id = [r \in Requests |-> 0]
    /\ license_data = [r \in Requests |-> NoData]
    /\ active_devices = [r \in Requests |-> 0]
    /\ pend = [r \in Requests |-> NoPend]
    /\ resp = [r \in Requests |-> NoResp]
    /\ abandoned = [r \in Requests |-> FALSE]
    /\ statsResp = NoResp
    /\ conns = 0
    /\ hdr = [c \in Clients |-> ApiKey]
    /\ activityResp = NoResp
    /\ boot = Booted

\* ------------------------------------------------------- store semantics

\* what a transaction sees of a relation: the committed rows, with its own
\* uncommitted versions in place of the rows they replace
Overlay(base, own) ==
    {x \in base : \A y \in own : y.id # x.id} \cup own

\* another transaction holds an uncommitted version of a row with this key
UserLocked(r, uid) ==
    \E t \in Requests \ {r} : \E u \in pend[t].users : u.user_id = uid

\* mutant: a transaction that waits for the licenses row of a key also
\* keeps the others from it
LicenseLockedOrWanted(r, key) ==
    \E t \in Requests \ {r} :
        \/ \E l \in pend[t].licenses : l.license_key = key
        \/ pc[t] = "license" /\ req[t].license_key = key

LicenseLocked(r, key) ==
    \E t \in Requests \ {r} : \E l \in pend[t].licenses : l.license_key = key

LinkLocked(r, uid, lid) ==
    \E t \in Requests \ {r} : \E x \in pend[t].user_licenses :
        x.user_id = uid /\ x.license_id = lid

DeviceLocked(r, lid, did) ==
    \E t \in Requests \ {r} : \E d \in pend[t].device_activations :
        d.license_id = lid /\ d.device_id = did

\* INSERT INTO users ... ON CONFLICT (user_id) DO UPDATE SET user_id =
\* EXCLUDED.user_id RETURNING id: the row version the statement writes
UpsertUser(rows, newid, uid) ==
    IF \E u \in rows : u.user_id = uid
    THEN CHOOSE u \in rows : u.user_id = uid
    ELSE [id |-> newid, user_id |-> uid]

\* mutant: a plain INSERT of a new licenses row, no ON CONFLICT clause
UpsertLicenseInsertOnly(rows, newid, key, expires) ==
    [id |-> newid, license_key |-> key, status |-> "active",
     type |-> "premium", expires_at |-> expires,
     max_devices |-> DefaultMaxDevices]

\* mutant: ON CONFLICT DO NOTHING, a known license keeps its fields
UpsertLicenseKeep(rows, newid, key, expires) ==
    IF \E l \in rows : l.license_key = key
    THEN CHOOSE l \in rows : l.license_key = key
    ELSE [id |-> newid, license_key |-> key, status |-> "active",
          type |-> "premium", expires_at |-> expires,
          max_devices |-> DefaultMaxDevices]

\* INSERT INTO licenses ... ON CONFLICT (license_key) DO UPDATE SET status,
\* type, expires_at RETURNING ...: the row version the statement writes
UpsertLicense(rows, newid, key, expires) ==
    IF \E l \in rows : l.license_key = key
    THEN [(CHOOSE l \in rows : l.license_key = key) EXCEPT
             !.status = "active", !.type = "premium", !.expires_at = expires]
    ELSE [id |-> newid, license_key |-> key, status |-> "active",
          type |-> "premium", expires_at |-> expires,
          max_devices |-> DefaultMaxDevices]

\* mutant: a plain INSERT of the link, no ON CONFLICT clause
InsertLinkNoConflict(rows, newid, uid, lid) ==
    {[id |-> newid, user_id |-> uid, license_id |-> lid]}

\* INSERT INTO user_licenses ... ON CONFLICT (user_id, license_id) DO
\* NOTHING: the rows the statement inserts
InsertLink(rows, newid, uid, lid) ==
    IF \E x \in rows : x.user_id = uid /\ x.license_id = lid
    THEN {}
    ELSE {[id |-> newid, user_id |-> uid, license_id |-> lid]}

\* mutant: the count is not restricted to the license
CountActiveAll(rows, lid) ==
    Cardinality({d \in rows : d.is_active})

\* SELECT COUNT(*) FROM device_activations WHERE license_id = %s AND
\* is_active = true
CountActive(rows, lid) ==
    Cardinality({d \in rows : d.license_id = lid /\ d.is_active})

\* mutant: a new device is refused once the license is at its cap
UpsertDeviceCapped(rows, newid, lid, uid, did, ts) ==
    IF \E d \in rows : d.license_id = lid /\ d.device_id = did
    THEN {[d EXCEPT !.last_active = ts, !.is_active = TRUE] :
             d \in {x \in rows : x.license_id = lid /\ x.device_id = did}}
    ELSE IF CountActive(rows, lid) >= DefaultMaxDevices
         THEN {}
         ELSE {[id |-> newid, license_id |-> lid, user_id |-> uid,
                device_id |-> did, last_active |-> ts, is_active |-> TRUE]}

\* mutant: ON CONFLICT DO NOTHING, a known device is left as it was
UpsertDeviceDoNothing(rows, newid, lid, uid, did, ts) ==
    IF \E d \in rows : d.license_id = lid /\ d.device_id = did
    THEN {}
    ELSE {[id |-> newid, license_id |-> lid, user_id |-> uid,
           device_id |-> did, last_active |-> ts, is_active |-> TRUE]}

\* mutant: a plain INSERT, no ON CONFLICT clause and no unique index
UpsertDeviceNoConflict(rows, newid, lid, uid, did, ts) ==
    {[id |-> newid, license_id |-> lid, user_id |-> uid,
      device_id |-> did, last_active |-> ts, is_active |-> TRUE]}

\* INSERT INTO device_activations ... ON CONFLICT (license_id, device_id) DO
\* UPDATE SET last_active = CURRENT_TIMESTAMP, is_active = true
\* (device_name is stored and never read; the model leaves it out): the row
\* versions the statement writes
UpsertDevice(rows, newid, lid, uid, did, ts) ==
    IF \E d \in rows : d.license_id = lid /\ d.device_id = did
    THEN {[d EXCEPT !.last_active = ts, !.is_active = TRUE] :
             d \in {x \in rows : x.license_id = lid /\ x.device_id = did}}
    ELSE {[id |-> newid, license_id |-> lid, user_id |-> uid,
           device_id |-> did, last_active |-> ts, is_active |-> TRUE]}

\* json.dumps(device_info)
JsonDumps(did) ==
    IF did = "" THEN <<"{", "}">> ELSE <<"{", "device_id", ":", did, "}">>

\* mutant: the activity row is an upsert keyed on the license
InsertActivityPerLicense(rows, newid, lid, uid, ip, info, ts) ==
    IF \E a \in rows : a.license_id = lid
    THEN {[a EXCEPT !.user_id = uid, !.ip_address = ip, !.device_info = info,
                    !.created_at = ts] : a \in {x \in rows : x.license_id = lid}}
    ELSE {[id |-> newid, license_id |-> lid, user_id |-> uid,
           action |-> "validation", status |-> "success",
           ip_address |-> ip, device_info |-> info, created_at |-> ts]}

\* mutant: one activity row per license and user, rewritten each time
InsertActivityPerUser(rows, newid, lid, uid, ip, info, ts) ==
    IF \E a \in rows : a.license_id = lid /\ a.user_id = uid
    THEN {[a EXCEPT !.ip_address = ip, !.device_info = info, !.created_at = ts] :
             a \in {x \in rows : x.license_id = lid /\ x.user_id = uid}}
    ELSE {[id |-> newid, license_id |-> lid, user_id |-> uid,
           action |-> "validation", status |-> "success",
           ip_address |-> ip, device_info |-> info, created_at |-> ts]}

\* mutant: the row id is not drawn from the sequence
InsertActivityFixedId(rows, newid, lid, uid, ip, info, ts) ==
    {[id |-> 1, license_id |-> lid, user_id |-> uid,
      action |-> "validation", status |-> "success",
      ip_address |-> ip, device_info |-> info, created_at |-> ts]}

\* INSERT INTO license_activity (license_id, user_id, action, status,
\* ip_address, device_info): the row versions the statement writes, given
\* the rows the transaction sees
InsertActivity(rows, newid, lid, uid, ip, info, ts) ==
    {[id |-> newid, license_id |-> lid, user_id |-> uid,
      action |-> "validation", status |-> "success",
      ip_address |-> ip, device_info |-> info, created_at |-> ts]}

\* ------------------------------------------------------- verify_license

\* The handler only compares keys, user ids and device ids for equality, so
\* the clients use the first name of each kind before the second one.
InOrder(x, field, first) ==
    x \in {"", first} \/ \E q \in Requests : req[q][field] = first

\* lines 206-216: parse the body; a missing license_key or user_id is 400
Receive(r) ==
    /\ pc[r] = "idle"
    /\ \A q \in Requests : q < r => pc[q] # "idle"   \* slots are taken in order
    /\ \E k \in LicenseKeys \cup {""}, u \in UserIds \cup {""}, d \in DeviceIds :
        /\ InOrder(k, "license_key", "K1") /\ InOrder(u, "user_id", "alice")
        /\ InOrder(d, "device_id", "dev1")
        /\ req' = [req EXCEPT ![r] = [license_key |-> k, user_id |-> u,
                                      device_id |-> d]]
        /\ IF k = "" \/ u = ""
           THEN /\ pc' = [pc EXCEPT ![r] = "done"]
                /\ resp' = [resp EXCEPT ![r] =
                      [code |-> 400, valid |-> FALSE,
                       message |-> "License key and user ID are required"]]
           ELSE /\ pc' = [pc EXCEPT ![r] = "connect"]
                /\ UNCHANGED resp
    /\ UNCHANGED <<now, dbVars, seq, locVars, pend, abandoned, statsResp, conns, envVars>>

\* device_info that is not an object (JSON null), or no JSON object as body
NullInfo == "null"

\* lines 206-210 raising, before the check of line 212: device_info is null
\* (None.get), or the body is no JSON object (get_json raises, or returns
\* None and data.get raises); the outer except of lines 316-321 answers 500
ReceiveBroken(r) ==
    /\ pc[r] = "idle"
    /\ \A q \in Requests : q < r => pc[q] # "idle"
    /\ \E k \in LicenseKeys \cup {""}, u \in UserIds \cup {""} :
        /\ InOrder(k, "license_key", "K1") /\ InOrder(u, "user_id", "alice")
        /\ req' = [req EXCEPT ![r] = [license_key |-> k, user_id |-> u,
                                      device_id |-> NullInfo]]
    /\ pc' = [pc EXCEPT ![r] = "done"]
    /\ resp' = [resp EXCEPT ![r] = [code |-> 500, valid |-> FALSE,
                                    message |-> "Internal server error"]]
    /\ UNCHANGED <<now, dbVars, seq, locVars, pend, abandoned, statsResp, conns,
                   envVars>>

\* line 218: get_db_connection() returns a connection
Connect(r) ==
    /\ pc[r] = "connect"
    /\ pc' = [pc EXCEPT ![r] = "user"]
    /\ conns' = conns + 1
    /\ UNCHANGED <<now, dbVars, seq, req, locVars, pend, resp, abandoned,
                   statsResp, envVars>>

\* line 218 raising: the outer except answers 500, nothing was opened
ConnectFail(r) ==
    /\ pc[r] = "connect"
    /\ pc' = [pc EXCEPT ![r] = "done"]
    /\ resp' = [resp EXCEPT ![r] = [code |-> 500, valid |-> FALSE,
                                    message |-> "Internal server error"]]
    /\ UNCHANGED <<now, dbVars, seq, req, locVars, pend, abandoned, statsResp, conns, envVars>>

\* lines 223-229: the first statement opens the transaction
StepUser(r) ==
    /\ pc[r] = "user"
    /\ ~UserLocked(r, req[r].user_id)
    /\ LET row == UpsertUser(Overlay(users, pend[r].users), seq["users"] + 1,
                             req[r].user_id)
       IN /\ pend' = [pend EXCEPT ![r].users = {row}]
          /\ user_db_id' = [user_db_id EXCEPT ![r] = row.id]
    /\ seq' = [seq EXCEPT !["users"] = @ + 1]
    /\ txStart' = [txStart EXCEPT ![r] = now]
    /\ pc' = [pc EXCEPT ![r] = "license"]
    /\ UNCHANGED <<now, dbVars, req, license_data, active_devices, resp,
                   abandoned, statsResp, conns, envVars>>

\* lines 232-246
StepLicense(r) ==
    /\ pc[r] = "license"
    /\ ~LicenseLocked(r, req[r].license_key)
    /\ LET row == UpsertLicense(Overlay(licenses, pend[r].licenses),
                                seq["licenses"] + 1, req[r].license_key,
                                now + LicenseDays)
       IN /\ pend' = [pend EXCEPT ![r].licenses = {row}]
          /\ license_data' = [license_data EXCEPT ![r] =
                [id |-> row.id, status |-> row.status, type |-> row.type,
                 expires_at |-> row.expires_at, max_devices |-> row.max_devices]]
    /\ seq' = [seq EXCEPT !["licenses"] = @ + 1]
    /\ pc' = [pc EXCEPT ![r] = "link"]
    /\ UNCHANGED <<now, dbVars, req, txStart, user_db_id, active_devices, resp,
                   abandoned, statsResp, conns, envVars>>

\* lines 249-253
StepLink(r) ==
    /\ pc[r] = "link"
    /\ ~LinkLocked(r, user_db_id[r], license_data[r].id)
    /\ pend' = [pend EXCEPT ![r].user_licenses =
          InsertLink(Overlay(user_licenses, pend[r].user_licenses),
                     seq["user_licenses"] + 1, user_db_id[r], license_data[r].id)]
    /\ seq' = [seq EXCEPT !["user_licenses"] = @ + 1]
    /\ pc' = [pc EXCEPT ![r] = "device"]
    /\ UNCHANGED <<now, dbVars, req, locVars, resp, abandoned, statsResp, conns, envVars>>

\* lines 256-268: only when device_id is not empty
StepDevice(r) ==
    /\ pc[r] = "device"
    /\ IF req[r].device_id # ""
       THEN /\ ~DeviceLocked(r, license_data[r].id, req[r].device_id)
            /\ pend' = [pend EXCEPT ![r].device_activations =
                  UpsertDevice(Overlay(device_activations,
                                       pend[r].device_activations),
                               seq["device_activations"] + 1,
                               license_data[r].id, user_db_id[r],
                               req[r].device_id, txStart[r])]
            /\ seq' = [seq EXCEPT !["device_activations"] = @ + 1]
       ELSE UNCHANGED <<pend, seq>>
    /\ pc' = [pc EXCEPT ![r] = "activity"]
    /\ UNCHANGED <<now, dbVars, req, locVars, resp, abandoned, statsResp, conns, envVars>>

\* lines 271-282
StepActivity(r) ==
    /\ pc[r] = "activity"
    /\ pend' = [pend EXCEPT ![r].license_activity =
          InsertActivity(Overlay(license_activity, pend[r].license_activity),
                         seq["license_activity"] + 1, license_data[r].id,
                         user_db_id[r], RemoteAddr,
                         JsonDumps(req[r].device_id), txStart[r])]
    /\ seq' = [seq EXCEPT !["license_activity"] = @ + 1]
    /\ pc' = [pc EXCEPT ![r] = "count"]
    /\ UNCHANGED <<now, dbVars, req, locVars, resp, abandoned, statsResp, conns, envVars>>

\* lines 285-290
StepCount(r) ==
    /\ pc[r] = "count"
    /\ active_devices' = [active_devices EXCEPT ![r] =
          CountActive(Overlay(device_activations, pend[r].device_activations),
                      license_data[r].id)]
    /\ pc' = [pc EXCEPT ![r] = "commit"]
    /\ UNCHANGED <<now, dbVars, seq, req, txStart, user_db_id, license_data,
                   pend, resp, abandoned, statsResp, conns, envVars>>

\* lines 322-326 and the return: the finally clause closes the cursor and
\* the connection, and the handler's locals are gone
Return(r) ==
    /\ conns' = conns - 1
    /\ txStart' = [txStart EXCEPT ![r] = 0]
    /\ user_db_id' = [user_db_id EXCEPT ![r] = 0]
    /\ license_data' = [license_data EXCEPT ![r] = NoData]
    /\ active_devices' = [active_devices EXCEPT ![r] = 0]

\* lines 293-306: COMMIT, then the verdict
Commit(r) ==
    /\ pc[r] = "commit"
    /\ users' = Overlay(users, pend[r].users)
    /\ licenses' = Overlay(licenses, pend[r].licenses)
    /\ user_licenses' = Overlay(user_licenses, pend[r].user_licenses)
    /\ device_activations' = Overlay(device_activations, pend[r].device_activations)
    /\ license_activity' = Overlay(license_activity, pend[r].license_activity)
    /\ pend' = [pend EXCEPT ![r] = NoPend]
    /\ resp' = [resp EXCEPT ![r] =
          [code |-> 200, valid |-> TRUE, type |-> license_data[r].type,
           status |-> license_data[r].status,
           expires_at |-> license_data[r].expires_at,
           days_remaining |-> license_data[r].expires_at - now,
           active_devices |-> active_devices[r],
           max_devices |-> license_data[r].max_devices]]
    /\ pc' = [pc EXCEPT ![r] = "done"]
    /\ Return(r)
    /\ UNCHANGED <<now, seq, req, abandoned, statsResp, envVars>>

InTx(r) ==
    pc[r] \in {"user", "license", "link", "device", "activity", "count", "commit"}

\* lines 308-314: a statement (or the commit) raises; ROLLBACK and 500
Fail(r) ==
    /\ InTx(r)
    /\ pend' = [pend EXCEPT ![r] = NoPend]
    /\ resp' = [resp EXCEPT ![r] = [code |-> 500, valid |-> FALSE,
                                    message |-> "Database error occurred"]]
    /\ pc' = [pc EXCEPT ![r] = "done"]
    /\ Return(r)
    /\ UNCHANGED <<now, dbVars, seq, req, abandoned, statsResp, envVars>>

\* ---------------------------------------------------- get_license_stats

\* lines 424-447: both queries name relations (license_stats, license_logs)
\* that init_db does not create, so c.execute raises and the except clause
\* answers 500; were they there, no statement of the program writes them
\* and c.fetchone() or [] gives empty stats
\* Line 439, conn.close(), is skipped when a query raises: whether the
\* connection is then closed is up to the interpreter reclaiming the local,
\* so it may stay open (conns is kept within MaxConns).
GetLicenseStats(k) ==
    /\ statsResp' = IF {"license_stats", "license_logs"} \subseteq Tables
                    THEN [code |-> 200, license_key |-> k, stats |-> <<>>,
                          recent_activity |-> <<>>]
                    ELSE [code |-> 500, license_key |-> k]
    /\ IF {"license_stats", "license_logs"} \subseteq Tables
       THEN UNCHANGED conns
       ELSE \/ UNCHANGED conns
            \/ conns < MaxConns /\ conns' = conns + 1
    /\ UNCHANGED <<now, dbVars, seq, pc, req, locVars, pend, resp, abandoned,
                   envVars>>

\* -------------------------------------------------- get_license_activity

\* lines 352-356: FROM license_activity la JOIN licenses l JOIN users u
\* WHERE l.license_key = %s
ActivityRows(rows, k) ==
    {a \in rows : /\ \E l \in licenses : l.id = a.license_id
                                          /\ l.license_key = k
                  /\ \E u \in users : u.id = a.user_id}

\* mutant: device_info is cut off after its first token
ActivityRecordDeviceOnly(a) ==
    [created_at |-> a.created_at, action |-> a.action, status |-> a.status,
     ip_address |-> a.ip_address, device_info |-> <<a.device_info[1]>>,
     user_id |-> (CHOOSE u \in users : u.id = a.user_id).user_id]

\* lines 344-351 and 361: the columns of one row as the response carries
\* them (email and name are never written and stay null; left out)
ActivityRecord(a) ==
    [created_at |-> a.created_at, action |-> a.action, status |-> a.status,
     ip_address |-> a.ip_address, device_info |-> a.device_info,
     user_id |-> (CHOOSE u \in users : u.id = a.user_id).user_id]

\* line 357, ORDER BY la.created_at DESC: the query does not order rows of
\* equal created_at; the model lets them come in either order of their ids
Ties == {"asc", "desc"}

ComesFirst(a, b, tie) ==
    \/ a.created_at > b.created_at
    \/ /\ a.created_at = b.created_at
       /\ IF tie = "asc" THEN a.id <= b.id ELSE a.id >= b.id

RECURSIVE OrderByCreatedDesc(_, _)
OrderByCreatedDesc(rows, tie) ==
    IF rows = {} THEN <<>>
    ELSE LET first == CHOOSE a \in rows : \A b \in rows : ComesFirst(a, b, tie)
         IN  <<first>> \o OrderByCreatedDesc(rows \ {first}, tie)

\* mutant: no LIMIT clause
LimitNone(s, n) == s

\* line 358: LIMIT n
Limit(s, n) ==
    IF Len(s) <= n THEN s ELSE SubSeq(s, 1, n)

\* lines 331-374 as one step: the single SELECT reads the committed rows;
\* an empty license_key is 400, a failing connection or query 500; the
\* finally clause closes what was opened
GetLicenseActivity(k, tie) ==
    /\ \/ activityResp' =
            IF k = ""
            THEN [code |-> 400, license_key |-> k]
            ELSE LET sorted == OrderByCreatedDesc(
                                   ActivityRows(license_activity, k), tie)
                     page == Limit(sorted, ActivityLimit)
                 IN  [code |-> 200, license_key |-> k,
                      activities |-> [i \in 1..Len(page) |->
                                         ActivityRecord(page[i])]]
       \/ k # "" /\ activityResp' = [code |-> 500, license_key |-> k]
    /\ UNCHANGED <<now, dbVars, seq, pc, req, locVars, pend, resp, abandoned,
                   statsResp, conns, hdr, boot>>

\* the client has read the response
DeliverActivity ==
    /\ activityResp # NoResp
    /\ activityResp' = NoResp
    /\ UNCHANGED <<now, dbVars, seq, pc, req, locVars, pend, resp, abandoned,
                   statsResp, conns, hdr, boot>>

\* ------------------------------------------------------- the environment

\* the caller of a request in flight gives up (client timeout); the
\* handler has no cancellation point and reads nothing of it
Abandon(r) ==
    /\ pc[r] \notin {"idle", "done"}
    /\ ~abandoned[r]
    /\ abandoned' = [abandoned EXCEPT ![r] = TRUE]
    /\ UNCHANGED <<now, dbVars, seq, pc, req, locVars, pend, resp, statsResp, conns, envVars>>

\* the clock
Tick ==
    /\ now < MaxTicks * TickDays
    /\ now' = now + TickDays
    /\ UNCHANGED <<dbVars, seq, pc, req, locVars, pend, resp, abandoned, statsResp, conns, envVars>>

Quiescent == \A r \in Requests : pc[r] \in {"idle", "done"}

\* a request that arrives while no other request is being served
ReceiveAlone(r) ==
    /\ Quiescent
    /\ Receive(r)

\* the steps of verify_license after the request is received
Handle(r) ==
    \/ Connect(r)
    \/ ConnectFail(r)
    \/ StepUser(r)
    \/ StepLicense(r)
    \/ StepLink(r)
    \/ StepDevice(r)
    \/ StepActivity(r)
    \/ StepCount(r)
    \/ Commit(r)
    \/ Fail(r)

\* concurrent requests
Next ==
    \/ \E r \in Requests : Receive(r)
    \/ \E r \in Requests : Handle(r)

Spec == Init /\ [][Next]_vars

\* requests served one at a time, while the clock advances
NextClock ==
    \/ \E r \in Requests : ReceiveAlone(r)
    \/ \E r \in Requests : Handle(r)
    \/ Tick

SpecClock == Init /\ [][NextClock]_vars

\* a request for the first license key that names no device
ReceiveFirstKey(r) ==
    /\ Receive(r)
    /\ req'[r].license_key \in {"", "K1"}
    /\ req'[r].device_id = ""

\* concurrent requests for one license key, while the clock advances
NextRace ==
    \/ \E r \in Requests : ReceiveFirstKey(r)
    \/ \E r \in Requests : Handle(r)
    \/ Tick

SpecRace == Init /\ [][NextRace]_vars

\* a step of request r when the store is available: no statement raises
Progress(r) ==
    \/ Connect(r)
    \/ StepUser(r)
    \/ StepLicense(r)
    \/ StepLink(r)
    \/ StepDevice(r)
    \/ StepActivity(r)
    \/ StepCount(r)
    \/ Commit(r)

\* concurrent requests over an available store; the server runs every
\* request that can take a step (each request has its own worker, and the
\* store resumes a waiting statement when the row is released)
NextLive ==
    \/ \E r \in Requests : Receive(r)
    \/ \E r \in Requests : Progress(r)

SpecLive ==
    Init /\ [][NextLive]_vars /\ \A r \in Requests : WF_vars(Progress(r))

\* concurrent requests whose callers may give up
NextAbandon ==
    \/ Next
    \/ \E r \in Requests : Abandon(r)

SpecAbandon == Init /\ [][NextAbandon]_vars

\* concurrent requests and statistics reads
NextStats ==
    \/ Next
    \/ \E k \in LicenseKeys : GetLicenseStats(k)

SpecStats == Init /\ [][NextStats]_vars

\* requests one at a time, and between them a client that reads the
\* activity of a license and looks at the answer
NextRead ==
    \/ activityResp = NoResp /\ \E r \in Requests : ReceiveAlone(r)
    \/ activityResp = NoResp /\ \E r \in Requests : Handle(r)
    \/ /\ Quiescent /\ activityResp = NoResp
       /\ \E k \in LicenseKeys \cup {""}, tie \in Ties : GetLicenseActivity(k, tie)
    \/ DeliverActivity

SpecRead == Init /\ [][NextRead]_vars

\* created_at of the row with id i in a ledger: transactions that began in
\* id order on a moving clock, that all began at one instant, that began two
\* at an instant, or that wrote their rows in pairs in the reverse of the
\* order they began in
Patterns == {"rising", "same", "pairs", "swapped"}

CreatedAt(i, pat) ==
    CASE pat = "rising" -> i
      [] pat = "same" -> 1
      [] pat = "pairs" -> (i + 1) \div 2
      [] pat = "swapped" -> IF i % 2 = 1 THEN i + 1 ELSE i - 1

\* the store after n committed validations of K1 and m of K2 (the first m),
\* all by alice with device dev1, as verify_license leaves it
Ledger(n, m, pat) ==
    {[id |-> i, license_id |-> IF i <= m THEN 2 ELSE 1, user_id |-> 1,
      action |-> "validation", status |-> "success",
      ip_address |-> RemoteAddr, device_info |-> JsonDumps("dev1"),
      created_at |-> CreatedAt(i, pat)] : i \in 1..(n + m)}

InitActivity ==
    /\ \E n \in 1..MaxRows, m \in 0..MaxOther, pat \in Patterns :
        /\ now = n + m + 1
        /\ license_activity = Ledger(n, m, pat)
        /\ licenses = {[id |-> i, license_key |-> IF i = 1 THEN "K1" ELSE "K2",
                        status |-> "active", type |-> "premium",
                        expires_at |-> now + LicenseDays,
                        max_devices |-> DefaultMaxDevices] :
                           i \in IF m = 0 THEN {1} ELSE {1, 2}}
        /\ user_licenses = {[id |-> i, user_id |-> 1, license_id |-> i] :
                               i \in IF m = 0 THEN {1} ELSE {1, 2}}
        /\ device_activations =
              {[id |-> i, license_id |-> i, user_id |-> 1, device_id |-> "dev1",
                last_active |-> n + m, is_active |-> TRUE] :
                   i \in IF m = 0 THEN {1} ELSE {1, 2}}
        /\ seq = [t \in Tables |-> n + m]
    /\ users = {[id |-> 1, user_id |-> "alice"]}
    /\ pc = [r \in Requests |-> "idle"]
    /\ req = [r \in Requests |-> NoReq]
    /\ txStart = [r \in Requests |-> 0]
    /\ user_db_id = [r \in Requests |-> 0]
    /\ license_data = [r \in Requests |-> NoData]
    /\ active_devices = [r \in Requests |-> 0]
    /\ pend = [r \in Requests |-> NoPend]
    /\ resp = [r \in Requests |-> NoResp]
    /\ abandoned = [r \in Requests |-> FALSE]
    /\ statsResp = NoResp
    /\ conns = 0
    /\ hdr = [c \in Clients |-> ApiKey]
    /\ activityResp = NoResp
    /\ boot = Booted

\* reads of the activity of a license over a ledger of many rows
NextActivity ==
    \/ /\ activityResp = NoResp
       /\ \E k \in LicenseKeys \cup {""}, tie \in Ties : GetLicenseActivity(k, tie)
    \/ DeliverActivity

SpecActivity == InitActivity /\ [][NextActivity]_vars

\* ------------------------------------------------------ require_api_key

Headers == {ApiKey} \cup BadHeaders

\* mutant: a request without the header passes
RequireApiKeyLax(h) ==
    h = ApiKey \/ h = NoHeader

\* lines 164-165: the handler is called when api_key != API_KEY is false
RequireApiKey(h) ==
    h = ApiKey

\* a client sets the X-API-Key header of the request it is about to send
SendKey(c) ==
    /\ IF c \in Requests
       THEN pc[c] = "idle" /\ \A q \in Requests : q < c => pc[q] # "idle"
       ELSE activityResp = NoResp
    /\ \E h \in Headers \ {hdr[c]} : hdr' = [hdr EXCEPT ![c] = h]
    /\ UNCHANGED <<now, dbVars, seq, pc, req, locVars, pend, resp, abandoned,
                   statsResp, conns, activityResp, boot>>

\* line 166 around verify_license: 401, the handler is not called
Unauthorized(r) ==
    /\ pc[r] = "idle"
    /\ \A q \in Requests : q < r => pc[q] # "idle"
    /\ ~RequireApiKey(hdr[r])
    /\ pc' = [pc EXCEPT ![r] = "done"]
    /\ resp' = [resp EXCEPT ![r] = [code |-> 401, valid |-> FALSE,
                                    message |-> "Unauthorized"]]
    /\ UNCHANGED <<now, dbVars, seq, req, locVars, pend, abandoned, statsResp,
                   conns, envVars>>

\* line 167 around verify_license: the handler is called
Authorized(r) ==
    /\ RequireApiKey(hdr[r])
    /\ ReceiveAlone(r)

\* lines 164-167 around get_license_activity
DecoratedActivity ==
    IF RequireApiKey(hdr[0])
    THEN \E k \in LicenseKeys \cup {""}, tie \in Ties : GetLicenseActivity(k, tie)
    ELSE /\ activityResp' = [code |-> 401]
         /\ UNCHANGED <<now, dbVars, seq, pc, req, locVars, pend, resp,
                        abandoned, statsResp, conns, hdr, boot>>

\* requests one at a time and reads between them, each sent with the key,
\* with another value for it, or without the header
NextAuth ==
    \/ Quiescent /\ activityResp = NoResp /\ \E c \in Clients : SendKey(c)
    \/ activityResp = NoResp /\ \E r \in Requests : Unauthorized(r)
    \/ activityResp = NoResp /\ \E r \in Requests : Authorized(r)
    \/ activityResp = NoResp /\ \E r \in Requests : Handle(r)
    \/ Quiescent /\ activityResp = NoResp /\ DecoratedActivity
    \/ DeliverActivity

SpecAuth == Init /\ [][NextAuth]_vars

\* ---------------------------------------------------------------- init_db

\* init_db is entered: no local is bound yet (the error of attempt i is i)
BootStart == [pc |-> "loop", attempt |-> 0, conn |-> "none", cur |-> "none",
              failed |-> 0, slept |-> 0, last_error |-> 0, outcome |-> "none"]

\* mutant: the finally clause closes nothing
CloseNothing(x) == x

\* lines 151-154: close() on what is in locals(); closing again is harmless
CloseIfOpen(x) ==
    IF x = "open" THEN "closed" ELSE x

BootOnly == UNCHANGED <<now, dbVars, seq, pc, req, locVars, pend, resp,
                        abandoned, statsResp, hdr, activityResp>>

\* line 58: for attempt in range(retries)
BootLoop ==
    /\ boot.pc = "loop"
    /\ boot' = IF boot.attempt < Retries
               THEN [boot EXCEPT !.attempt = @ + 1, !.pc = "connect"]
               ELSE [boot EXCEPT !.pc = "after"]
    /\ UNCHANGED conns /\ BootOnly

\* line 62: get_db_connection() returns a connection, or raises
BootConnect ==
    /\ boot.pc = "connect"
    /\ \/ boot' = [boot EXCEPT !.conn = "open", !.pc = "cursor"]
          /\ conns' = conns + 1
       \/ boot' = [boot EXCEPT !.pc = "except"] /\ UNCHANGED conns
    /\ BootOnly

\* line 63: conn.cursor()
BootCursor ==
    /\ boot.pc = "cursor"
    /\ \/ boot' = [boot EXCEPT !.cur = "open", !.pc = "create"]
       \/ boot' = [boot EXCEPT !.pc = "except"]
    /\ UNCHANGED conns /\ BootOnly

\* lines 65-140: the CREATE TABLE IF NOT EXISTS statements
BootCreate ==
    /\ boot.pc = "create"
    /\ \/ boot' = [boot EXCEPT !.pc = "commit"]
       \/ boot' = [boot EXCEPT !.pc = "except"]
    /\ UNCHANGED conns /\ BootOnly

\* lines 142-144: conn.commit() and return True, by way of the finally
BootCommit ==
    /\ boot.pc = "commit"
    /\ \/ boot' = [boot EXCEPT !.outcome = "True", !.pc = "finally"]
       \/ boot' = [boot EXCEPT !.pc = "except"]
    /\ UNCHANGED conns /\ BootOnly

\* lines 146-149: keep the error, sleep
BootExcept ==
    /\ boot.pc = "except"
    /\ boot' = [boot EXCEPT !.last_error = boot.attempt, !.failed = @ + 1,
                            !.slept = @ + PauseSeconds, !.pc = "finally"]
    /\ UNCHANGED conns /\ BootOnly

\* lines 150-154, then the pending return or the next round of the loop
BootFinally ==
    /\ boot.pc = "finally"
    /\ boot' = [boot EXCEPT !.cur = CloseIfOpen(@), !.conn = CloseIfOpen(@),
                  !.pc = IF boot.outcome = "True" THEN "returned" ELSE "loop"]
    /\ conns' = IF boot'.conn = "open" \/ boot.conn # "open"
                THEN conns ELSE conns - 1
    /\ BootOnly

\* lines 156-158: raise last_error (a loop that never ran falls through)
BootAfter ==
    /\ boot.pc = "after"
    /\ boot' = IF boot.last_error # 0
               THEN [boot EXCEPT !.outcome = "raise", !.pc = "raised"]
               ELSE [boot EXCEPT !.outcome = "None", !.pc = "returned"]
    /\ UNCHANGED conns /\ BootOnly

\* the process state as init_db is entered (lines 580-587)
InitBoot ==
    /\ now = 0
    /\ users = {} /\ licenses = {} /\ user_licenses = {}
    /\ device_activations = {} /\ license_activity = {}
    /\ seq = [t \in Tables |-> 0]
    /\ pc = [r \in Requests |-> "idle"]
    /\ req = [r \in Requests |-> NoReq]
    /\ txStart = [r \in Requests |-> 0]
    /\ user_db_id = [r \in Requests |-> 0]
    /\ license_data = [r \in Requests |-> NoData]
    /\ active_devices = [r \in Requests |-> 0]
    /\ pend = [r \in Requests |-> NoPend]
    /\ resp = [r \in Requests |-> NoResp]
    /\ abandoned = [r \in Requests |-> FALSE]
    /\ statsResp = NoResp
    /\ conns = 0
    /\ hdr = [c \in Clients |-> ApiKey]
    /\ activityResp = NoResp
    /\ boot = BootStart

\* init_db, and once it has returned (line 590, app.run) requests one at a
\* time
NextInit ==
    \/ BootLoop
    \/ BootConnect
    \/ BootCursor
    \/ BootCreate
    \/ BootCommit
    \/ BootExcept
    \/ BootFinally
    \/ BootAfter
    \/ boot.pc = "returned" /\ \E r \in Requests : ReceiveAlone(r)
    \/ boot.pc = "returned" /\ \E r \in Requests : Handle(r)

SpecInit == InitBoot /\ [][NextInit]_vars

\* concurrent requests, some with a body the handler cannot read
NextInput ==
    \/ Next
    \/ \E r \in Requests : ReceiveBroken(r)

SpecInput == Init /\ [][NextInput]_vars

\* ------------------------------------------------------------ properties

\* total_validations of a license key: its license_activity rows with
\* action 'validation'
TotalValidations(k) ==
    Cardinality({a \in license_activity :
        /\ a.action = "validation"
        /\ \E l \in licenses : l.license_key = k /\ l.id = a.license_id})

\* the requests for key k that committed and returned their verdict
Committed(k) ==
    {r \in Requests : pc[r] = "done" /\ resp[r].code = 200
                       /\ req[r].license_key = k}

\* request r returns from the commit step with its verdict
Returns200(r) ==
    pc[r] = "commit" /\ pc'[r] = "done" /\ resp'[r].code = 200

\* the id of the users row of a user id (0 when there is none)
UserRowId(uid) ==
    IF \E u \in users : u.user_id = uid
    THEN (CHOOSE u \in users : u.user_id = uid).id
    ELSE 0

\* C1: in every interleaving, the number of 'validation' activity rows of a
\* license equals the number of verify_license requests for its key that
\* committed: none is lost, none is counted twice.
C1_NoLostValidation ==
    \A k \in LicenseKeys : TotalValidations(k) = Cardinality(Committed(k))

\* C1 witness: two requests for one key, by two users, both committed; the
\* request received second wrote its activity row first, so they overlapped.
C1_TwoOverlappingCommitted ==
    \E k \in LicenseKeys :
        /\ {1, 2} \subseteq Committed(k)
        /\ req[1].user_id # req[2].user_id
        /\ TotalValidations(k) >= 2
        /\ \E a, b \in license_activity :
              /\ a.user_id = UserRowId(req[1].user_id)
              /\ b.user_id = UserRowId(req[2].user_id)
              /\ b.id < a.id

\* C2: a request that fails at any step, or whose caller gave up before the
\* commit, ends with the store as it was and a 5xx answer.
C2_AllOrNothing ==
    [][\A r \in Requests :
          ( /\ InTx(r) \/ pc[r] = "connect"
            /\ pc'[r] = "done"
            /\ abandoned[r] \/ resp'[r].code # 200 )
          => (UNCHANGED dbVars /\ resp'[r].code >= 500)]_vars

\* C3: a validation of a license whose stored expires_at is in the past, or
\* whose stored status is 'inactive' or 'expired', returns valid:false.
C3_ExpiredIsInvalid ==
    [][\A r \in Requests : Returns200(r) =>
          \A l \in licenses :
              ( /\ l.license_key = req[r].license_key
                /\ \/ l.expires_at < txStart[r]
                   \/ l.status \in {"inactive", "expired"} )
              => resp'[r].valid = FALSE]_vars

\* C4: the active device_activations rows of a license never outnumber its
\* max_devices.
C4_DeviceCap ==
    \A l \in licenses : CountActive(device_activations, l.id) <= l.max_devices

\* C5: a committed validation that presents a device_id with no row yet for
\* the license is admitted and the license's active-device count grows by
\* one, whatever the count and max_devices are.
C5_NewDeviceAdmitted ==
    [][\A r \in Requests :
          ( /\ Returns200(r)
            /\ req[r].device_id # ""
            /\ ~\E d \in device_activations :
                  d.license_id = license_data[r].id
                  /\ d.device_id = req[r].device_id )
          => /\ resp'[r].valid
             /\ CountActive(device_activations', license_data[r].id)
                  = CountActive(device_activations, license_data[r].id) + 1
             /\ resp'[r].active_devices
                  = CountActive(device_activations', license_data[r].id)]_vars

\* C5 witness: a verdict that reports more active devices than max_devices.
C5_AdmittedOverCap ==
    \E r \in Requests :
        /\ pc[r] = "done" /\ resp[r].code = 200 /\ resp[r].valid
        /\ resp[r].active_devices > resp[r].max_devices

\* C6: a statistics read made while no validation is in flight reports, for
\* an existing license, active_devices equal to the number of its active
\* device_activations rows.
C6_ActiveDevicesReported ==
    [][( /\ statsResp' # statsResp
         /\ Quiescent
         /\ \E l \in licenses : l.license_key = statsResp'.license_key )
       => /\ statsResp'.code = 200
          /\ "active_devices" \in DOMAIN statsResp'.stats
          /\ \A l \in licenses : l.license_key = statsResp'.license_key =>
                statsResp'.stats.active_devices
                   = CountActive(device_activations, l.id)]_vars

\* C7: a committed validation with a device_id that already has a row for
\* the license adds no row and does not raise the active-device count; it
\* sets that row's last_active to the transaction's time and is_active to
\* true, changes nothing else of device_activations, and is admitted.
C7_KnownDeviceRefreshed ==
    [][\A r \in Requests : Returns200(r) =>
          \A d \in device_activations :
              (d.license_id = license_data[r].id /\ d.device_id = req[r].device_id)
              => /\ device_activations' = (device_activations \ {d}) \cup
                        {[d EXCEPT !.last_active = txStart[r], !.is_active = TRUE]}
                 /\ Cardinality(device_activations') = Cardinality(device_activations)
                 /\ CountActive(device_activations', d.license_id)
                       <= CountActive(device_activations, d.license_id)
                 /\ resp'[r].valid]_vars

\* C7 witness: a device row whose last_active is later than an activity row
\* of the same license and device: the device was validated again, later.
C7_DeviceSeenAgain ==
    \E d \in device_activations : \E a \in license_activity :
        /\ a.license_id = d.license_id
        /\ a.device_info = JsonDumps(d.device_id)
        /\ a.created_at < d.last_active
        /\ CountActive(device_activations, d.license_id) = 1

\* C8: at most one device_activations row per (license_id, device_id), among
\* the committed rows and among the rows any transaction sees.
C8_OneRowPerDevice ==
    \A r \in Requests :
        \A d1, d2 \in Overlay(device_activations, pend[r].device_activations) :
            (d1.license_id = d2.license_id /\ d1.device_id = d2.device_id)
            => d1 = d2

\* C8 witness: two committed requests first presented the same device for
\* the same key while both were in flight (the one received second wrote
\* the device row), and one row stands for the device.
C8_SameDeviceTwice ==
    \E k \in LicenseKeys :
        /\ {1, 2} \subseteq Committed(k)
        /\ req[1].device_id = req[2].device_id /\ req[1].device_id # ""
        /\ req[1].user_id # req[2].user_id
        /\ \E d \in device_activations :
              /\ d.device_id = req[1].device_id
              /\ d.user_id = UserRowId(req[2].user_id)
        /\ Cardinality(device_activations) = 1

\* C9: a statistics read for a license key made after a validation of that
\* key returned its verdict succeeds and counts that validation.
C9_StatsReflectValidation ==
    [][( /\ statsResp' # statsResp
         /\ Committed(statsResp'.license_key) # {} )
       => /\ statsResp'.code = 200
          /\ "total_validations" \in DOMAIN statsResp'.stats
          /\ statsResp'.stats.total_validations
                = TotalValidations(statsResp'.license_key)]_vars

C11_ActivityImmutable ==
    [][license_activity \subseteq license_activity']_vars

\* C11 witness: a row of a license is still there after a later validation
\* of the same license committed its own row.
C11_RowOutlivesLaterCommit ==
    \E a, b \in license_activity :
        a.license_id = b.license_id /\ a.id < b.id

\* C12: a request whose license_key or user_id is missing or empty is
\* answered 400 at once and leaves the store as it was: no row written, no
\* sequence value drawn, no connection opened.
C12_MalformedIs400 ==
    [][\A r \in Requests :
          ( /\ pc[r] = "idle" /\ pc'[r] # "idle"
            /\ req'[r].license_key = "" \/ req'[r].user_id = "" )
          => /\ pc'[r] = "done"
             /\ resp'[r].code = 400
             /\ UNCHANGED <<dbVars, seq, pend, conns>>]_vars

\* C13: once every request has completed, no connection a handler opened is
\* still open: each handler released its connection on the path it took.
C13_ConnectionsReleased ==
    Quiescent => conns = 0

\* C14: the unique indexes on licenses.license_key and users.user_id are
\* never violated by what a validation writes, also when several
\* validations meet the same unknown key or user at once: no uncommitted
\* row takes the key of another row, there is at most one committed row per
\* key, and every validation that committed resolved to that row (its link
\* and its activity row name it).
C14_OneRowPerKey ==
    /\ \A a, b \in licenses : a.license_key = b.license_key => a = b
    /\ \A a, b \in users : a.user_id = b.user_id => a = b
    /\ \A r \in Requests :
        /\ \A l \in pend[r].licenses : \A c \in licenses :
              c.license_key = l.license_key => c.id = l.id
        /\ \A u \in pend[r].users : \A c \in users :
              c.user_id = u.user_id => c.id = u.id
        /\ \A t \in Requests \ {r} :
            /\ \A l \in pend[r].licenses : \A m \in pend[t].licenses :
                  l.license_key # m.license_key
            /\ \A u \in pend[r].users : \A v \in pend[t].users :
                  u.user_id # v.user_id
    /\ \A r \in Requests :
          (pc[r] = "done" /\ resp[r].code = 200) =>
              \E l \in licenses, u \in users :
                  /\ l.license_key = req[r].license_key
                  /\ u.user_id = req[r].user_id
                  /\ \E x \in user_licenses :
                        x.license_id = l.id /\ x.user_id = u.id
                  /\ \E a \in license_activity :
                        a.license_id = l.id /\ a.user_id = u.id

\* C14 witness: two validations of one key that neither found in the store
\* both committed. Request 2 opened its transaction first (its users row has
\* the smaller id) while request 1 was already received, and request 1 wrote
\* its activity row first, so request 1 held the new licenses row while
\* request 2 was waiting for it.
C14_BothMetUnknownKey ==
    \E k \in LicenseKeys :
        /\ {1, 2} \subseteq Committed(k)
        /\ UserRowId(req[2].user_id) < UserRowId(req[1].user_id)
        /\ \E a, b \in license_activity :
              /\ a.user_id = UserRowId(req[1].user_id)
              /\ b.user_id = UserRowId(req[2].user_id)
              /\ a.id < b.id
        /\ Cardinality({l \in licenses : l.license_key = k}) = 1

\* C15: resolving a key that has a licenses row gives that row's id, and a
\* user id that has a users row gives that row's id; no step changes the id
\* or the key of a licenses row, changes a users row, or changes or removes a
\* user_licenses row; there is one licenses row per key, one users row per
\* user id and one link per (user, license) pair.
C15_SameIdentity ==
    [][ /\ \A r \in Requests :
            /\ (pc[r] = "license" /\ pc'[r] = "link") =>
                  \A l \in licenses : l.license_key = req[r].license_key
                                        => license_data'[r].id = l.id
            /\ (pc[r] = "user" /\ pc'[r] = "license") =>
                  \A u \in users : u.user_id = req[r].user_id
                                     => user_db_id'[r] = u.id
        /\ \A l \in licenses : \E m \in licenses' :
              m.id = l.id /\ m.license_key = l.license_key
        /\ users \subseteq users'
        /\ user_licenses \subseteq user_licenses'
        /\ \A a, b \in licenses' : a.license_key = b.license_key => a = b
        /\ \A a, b \in users' : a.user_id = b.user_id => a = b
        /\ \A x, y \in user_licenses' :
              (x.user_id = y.user_id /\ x.license_id = y.license_id) => x = y
      ]_vars

\* C15 witness: the same user validated the same key twice, both committed;
\* there is one link and there are two activity rows for it.
C15_ResolvedTwice ==
    /\ pc[1] = "done" /\ resp[1].code = 200
    /\ pc[2] = "done" /\ resp[2].code = 200
    /\ req[1].license_key = req[2].license_key
    /\ req[1].user_id = req[2].user_id
    /\ Cardinality(user_licenses) = 1
    /\ Cardinality(license_activity) = 2

\* the key of request r has no licenses row and its license no device row
FreshKey(r) ==
    /\ \A l \in licenses : l.license_key # req[r].license_key
    /\ \A d \in device_activations : d.license_id # license_data[r].id

\* C16 as stated: the first validation of a fresh license key returns
\* valid:true with active_devices equal to 1.
C16_FirstValidationCountsOne ==
    [][\A r \in Requests : (Returns200(r) /\ FreshKey(r)) =>
          (resp'[r].valid /\ resp'[r].active_devices = 1)]_vars

\* C16 amended: the first validation of a fresh license key that commits
\* returns valid:true, with active_devices equal to 1 when the request names
\* a device (device_info.device_id not empty) and 0 when it names none.
C16_FirstValidationCountsItsDevice ==
    [][\A r \in Requests : (Returns200(r) /\ FreshKey(r)) =>
          /\ resp'[r].valid
          /\ resp'[r].active_devices = IF req[r].device_id = "" THEN 0 ELSE 1
      ]_vars

\* C16 witness: the only committed validation of a key named a device and
\* was answered valid:true, active_devices 1.
C16_FreshKeyOneDevice ==
    \E r \in Requests :
        /\ pc[r] = "done" /\ resp[r].code = 200
        /\ req[r].device_id # ""
        /\ TotalValidations(req[r].license_key) = 1
        /\ resp[r].valid /\ resp[r].active_devices = 1

\* the committed activity rows of the license with key k
RecordsOf(k) ==
    {a \in license_activity :
        \E l \in licenses : l.license_key = k /\ l.id = a.license_id}

\* C17: when the activity of a license is read, every validation of it that
\* committed is in the answer with the action, status, ip address and
\* device_info it appended (and its user), once for each such validation, as
\* long as the license has no more rows than the page holds.
C17_ActivityRoundTrip ==
    activityResp.code = 200 =>
        \A r \in Requests :
            ( /\ pc[r] = "done" /\ resp[r].code = 200
              /\ req[r].license_key = activityResp.license_key
              /\ Cardinality(RecordsOf(activityResp.license_key)) <= ActivityLimit )
            => Cardinality({i \in DOMAIN activityResp.activities :
                    LET act == activityResp.activities[i]
                    IN  /\ act.action = "validation"
                        /\ act.status = "success"
                        /\ act.ip_address = RemoteAddr
                        /\ act.device_info = JsonDumps(req[r].device_id)
                        /\ act.user_id = req[r].user_id})
               >= Cardinality({q \in Requests :
                        /\ pc[q] = "done" /\ resp[q].code = 200
                        /\ req[q].license_key = req[r].license_key
                        /\ req[q].user_id = req[r].user_id
                        /\ req[q].device_id = req[r].device_id})

\* C17 witness: two committed validations of one license, with different
\* device_info, are both in the answer.
C17_TwoRecordsReadBack ==
    /\ activityResp.code = 200
    /\ Len(activityResp.activities) = 2
    /\ activityResp.activities[1].device_info
          # activityResp.activities[2].device_info
    /\ \A r \in {1, 2} : /\ pc[r] = "done" /\ resp[r].code = 200
                         /\ req[r].license_key = activityResp.license_key

\* C18: the answer of get_license_activity for a key holds min(50, total)
\* records, all of that license, in non-increasing created_at order, and
\* they are the most recent ones: every created_at later than the last one
\* returned is returned as often as the license has it, none more often.
C18_MostRecentPage ==
    activityResp.code = 200 =>
        LET rows == RecordsOf(activityResp.license_key)
            acts == activityResp.activities
            total == Cardinality(rows)
        IN  /\ Len(acts) = IF total <= ActivityLimit THEN total ELSE ActivityLimit
            /\ \A i \in DOMAIN acts : acts[i] \in {ActivityRecord(a) : a \in rows}
            /\ \A i \in DOMAIN acts :
                  i < Len(acts) => acts[i].created_at >= acts[i + 1].created_at
            /\ \A t \in {a.created_at : a \in rows} :
                  LET inAnswer == Cardinality({i \in DOMAIN acts :
                                                  acts[i].created_at = t})
                      inStore == Cardinality({a \in rows : a.created_at = t})
                  IN  /\ inAnswer <= inStore
                      /\ (Len(acts) > 0 /\ t > acts[Len(acts)].created_at)
                            => inAnswer = inStore

\* C18 witness: the license has more than 50 rows, and 50 were returned
\* while the other license has rows too.
C18_PageIsFull ==
    /\ activityResp.code = 200
    /\ Len(activityResp.activities) = ActivityLimit
    /\ Cardinality(RecordsOf(activityResp.license_key)) > ActivityLimit
    /\ \E a \in license_activity : a \notin RecordsOf(activityResp.license_key)

\* C19: a request whose X-API-Key header is absent or is not the API key is
\* answered 401 and its handler does not run: for verify_license and
\* get_license_activity alike, the step that answers it opens no
\* connection, draws no sequence value and writes no row.
C19_BadKeyRejected ==
    [][ /\ \A r \in Requests :
            (pc[r] = "idle" /\ pc'[r] # "idle" /\ hdr[r] # ApiKey) =>
                /\ pc'[r] = "done"
                /\ resp'[r].code = 401
                /\ UNCHANGED <<dbVars, seq, pend, conns>>
        /\ (hdr[0] # ApiKey /\ activityResp = NoResp /\ activityResp' # NoResp) =>
                /\ activityResp'.code = 401
                /\ UNCHANGED <<dbVars, seq, pend, conns>>
      ]_vars

\* C19 witness: with validations in the store, a verify_license request sent
\* without the header and an activity read sent with a wrong key were both
\* answered 401.
C19_RejectedOverAStore ==
    /\ license_activity # {}
    /\ \E r \in Requests :
          pc[r] = "done" /\ hdr[r] = NoHeader /\ resp[r].code = 401
    /\ hdr[0] = "wrong" /\ activityResp.code = 401

\* how far init_db is from its end: the attempts left, then the place
\* within the attempt
BootRank(b) ==
    (Retries - b.attempt) * 16 +
    (CASE b.pc = "connect" -> 8 [] b.pc = "cursor" -> 7 [] b.pc = "create" -> 6
       [] b.pc = "commit" -> 5 [] b.pc = "except" -> 4 [] b.pc = "finally" -> 3
       [] b.pc = "loop" -> 2 [] b.pc = "after" -> 1 [] OTHER -> 0)

\* C20: init_db makes at most 3 attempts and every step brings it nearer
\* its end; it has slept 1 second for each failed attempt; it returns True
\* at the first attempt that succeeds and does nothing after; it raises,
\* after 3 failed attempts, the error of the third; when an attempt starts
\* and when init_db ends, no cursor or connection of an earlier attempt is
\* open.
C20_InitDbBounded ==
    [][ /\ boot'.attempt <= Retries
        /\ boot' # boot => (BootRank(boot') < BootRank(boot) /\ BootRank(boot') >= 0)
        /\ boot'.slept = boot'.failed * PauseSeconds
        /\ boot'.pc = "returned" =>
              (boot'.outcome = "True" /\ boot'.failed = boot'.attempt - 1)
        /\ boot.pc \in {"returned", "raised"} => boot' = boot
        /\ boot'.pc = "raised" =>
              /\ boot'.failed = Retries
              /\ boot'.outcome = "raise" /\ boot'.last_error = Retries
        /\ boot'.pc \in {"loop", "connect", "after", "returned", "raised"} =>
              (boot'.conn # "open" /\ boot'.cur # "open")
        /\ boot'.pc \in {"loop", "connect", "after", "raised"} => conns' = 0
      ]_vars

\* C20 witness: init_db raised after three failed attempts, of which at
\* least one had opened a connection.
C20_RaisedAfterThree ==
    /\ boot.pc = "raised"
    /\ boot.failed = Retries /\ boot.slept = Retries * PauseSeconds
    /\ boot.conn = "closed"

\* C21: the license statement of a validation writes status 'active', type
\* 'premium' and expires_at 30 days after the time it runs; when the
\* validation commits, the committed row of its key carries exactly these
\* values, whatever it carried before and whoever else wrote it earlier,
\* with the id and max_devices it had; no other licenses row changes, and
\* no step other than a commit changes licenses.
C21_LicenseFieldsOverwritten ==
    [][ /\ \A r \in Requests :
            /\ (pc[r] = "license" /\ pc'[r] = "link") =>
                  /\ license_data'[r].status = "active"
                  /\ license_data'[r].type = "premium"
                  /\ license_data'[r].expires_at = now + LicenseDays
            /\ Returns200(r) =>
                  /\ \E l \in licenses' :
                        /\ l.license_key = req[r].license_key
                        /\ l.id = license_data[r].id
                        /\ l.status = "active" /\ l.type = "premium"
                        /\ l.expires_at = license_data[r].expires_at
                        /\ l.expires_at >= txStart[r] + LicenseDays
                        /\ l.expires_at <= now + LicenseDays
                        /\ \A o \in licenses : o.license_key = l.license_key =>
                              (o.id = l.id /\ o.max_devices = l.max_devices)
                  /\ \A o \in licenses :
                        o.license_key # req[r].license_key => o \in licenses'
        /\ (\A r \in Requests : ~Returns200(r)) => licenses' = licenses
      ]_vars

\* C21 witness: two validations of one key by two users overlapped (the one
\* received second wrote its activity row first) and both committed, at
\* different times; the row carries the expiry of the later writer.
C21_LaterWriterRemains ==
    \E k \in LicenseKeys :
        /\ {1, 2} \subseteq Committed(k)
        /\ resp[1].expires_at > resp[2].expires_at
        /\ \E a, b \in license_activity :
              /\ a.user_id = UserRowId(req[1].user_id)
              /\ b.user_id = UserRowId(req[2].user_id)
              /\ b.id < a.id /\ a.user_id # b.user_id
        /\ \E l \in licenses :
              l.license_key = k /\ l.expires_at = resp[1].expires_at

\* C22: over an available store, whatever users, keys and devices the
\* requests share, the server is again and again at a point where every
\* request received so far has completed (a request never leaves "done"):
\* no set of requests waits for one another's rows for ever.
C22_AllComplete ==
    []<>Quiescent

\* C22 witness: request 2 holds the users row it needs and waits for the
\* licenses row that request 1 holds, while the two name the same device.
C22_WaitsForLicense ==
    /\ pc[2] = "license" /\ pc[1] \in {"link", "device", "activity", "count", "commit"}
    /\ req[1].license_key = req[2].license_key
    /\ req[1].user_id # req[2].user_id
    /\ req[1].device_id = req[2].device_id /\ req[1].device_id # ""
    /\ LicenseLocked(2, req[2].license_key)
    /\ pend[2].users # {}

====
